---------------------------- MODULE Spec2Model ----------------------------
(***************************************************************************)
(* nix-shell argument parsing of cached-nix-shell (src/src/args.rs).       *)
(*                                                                         *)
(* A token (OsString) is a sequence of bytes, a byte is its ASCII code.    *)
(* Args::parse is a loop over a VecDeque; one action of the model is one   *)
(* iteration of that loop: the get_next_arg call that opens it and the     *)
(* branch of the if-chain that classifies the token.  The test helper      *)
(* expand is a second loop, with its own specification.                    *)
(***************************************************************************)
EXTENDS Integers, Sequences, FiniteSets, TLC

VARIABLES
    args,        \* parse: the `args` parameter; expand: <<arg>>
    in_shebang,  \* parse: the `in_shebang` parameter
    it,          \* the VecDeque `it`
    res,         \* the Args under construction
    pc,          \* "loop" while the while-let runs, "ok" / "err" once parse returned
    err,         \* the String of the Err result
    hist,        \* history: what each iteration's get_next_arg returned (arg) and left (q)
    out          \* expand: the tokens collected so far

vars == <<args, in_shebang, it, res, pc, err, hist, out>>

----------------------------------------------------------------------------
(* Bytes *)

LowerCase == <<"a","b","c","d","e","f","g","h","i","j","k","l","m",
               "n","o","p","q","r","s","t","u","v","w","x","y","z">>
UpperCase == <<"A","B","C","D","E","F","G","H","I","J","K","L","M",
               "N","O","P","Q","R","S","T","U","V","W","X","Y","Z">>
Digits    == <<"0","1","2","3","4","5","6","7","8","9">>

IndexOf(s, c) == CHOOSE i \in 1..Len(s) : s[i] = c

\* the ASCII code of a character
Ord(c) ==
    IF \E i \in 1..26 : LowerCase[i] = c THEN 96 + IndexOf(LowerCase, c)
    ELSE IF \E i \in 1..26 : UpperCase[i] = c THEN 64 + IndexOf(UpperCase, c)
    ELSE IF \E i \in 1..10 : Digits[i] = c THEN 47 + IndexOf(Digits, c)
    ELSE IF c = "-" THEN 45
    ELSE IF c = "." THEN 46
    ELSE 95

\* as_bytes of a string literal, given as a tuple of characters
Tok(s) == [i \in 1..Len(s) |-> Ord(s[i])]

Dash == 45

(* the literals of Args::parse *)
FlagAttr     == Tok(<<"-","-","a","t","t","r">>)
FlagA        == Tok(<<"-","A">>)
FlagI        == Tok(<<"-","I">>)
FlagArg      == Tok(<<"-","-","a","r","g">>)
FlagArgstr   == Tok(<<"-","-","a","r","g","s","t","r">>)
FlagOption   == Tok(<<"-","-","o","p","t","i","o","n">>)
Flagj        == Tok(<<"-","j">>)
FlagMaxJobs  == Tok(<<"-","-","m","a","x","-","j","o","b","s">>)
FlagPure     == Tok(<<"-","-","p","u","r","e">>)
FlagImpure   == Tok(<<"-","-","i","m","p","u","r","e">>)
FlagPackages == Tok(<<"-","-","p","a","c","k","a","g","e","s">>)
Flagp        == Tok(<<"-","p">>)
Flagi        == Tok(<<"-","i">>)
FlagRun      == Tok(<<"-","-","r","u","n">>)
FlagCommand  == Tok(<<"-","-","c","o","m","m","a","n","d">>)
FlagExec     == Tok(<<"-","-","e","x","e","c">>)
Bash         == Tok(<<"b","a","s","h">>)

----------------------------------------------------------------------------
(* get_next_arg *)

\* the test with the digits taken for letters too
is_alpha_or_digit(b) ==
    (97 <= b /\ b <= 122) \/ (65 <= b /\ b <= 90) \/ (48 <= b /\ b <= 57)

\* the test without its upper-case half
is_lower_alpha(b) == 97 <= b /\ b <= 122

is_alpha(b) == (97 <= b /\ b <= 122) \/ (65 <= b /\ b <= 90)

\* the same with the last byte of the token as the fallback split point
SplitIdxLastByte(s) ==
    IF \E k \in 1..Len(s) : ~is_alpha(s[k])
    THEN (CHOOSE k \in 1..Len(s) :
              /\ ~is_alpha(s[k])
              /\ \A m \in 1..(k-1) : is_alpha(s[m])) - 1
    ELSE Len(s) - 1

\* argb[1..].iter().position(|&b| !is_alpha(b)).unwrap_or(argb.len() - 1)
\* s is argb[1..], the result is 0-based
SplitIdx(s) ==
    IF \E k \in 1..Len(s) : ~is_alpha(s[k])
    THEN (CHOOSE k \in 1..Len(s) :
              /\ ~is_alpha(s[k])
              /\ \A m \in 1..(k-1) : is_alpha(s[m])) - 1
    ELSE (Len(s) + 1) - 1

\* for &c in letters.iter().rev() { it.push_front([b'-', c]) }
RECURSIVE PushLetters(_, _, _)
PushLetters(q, letters, n) ==
    IF n = 0 THEN q
    ELSE PushLetters(<<(<<Dash, letters[n]>>)>> \o q, letters, n - 1)

\* the same loop with push_back in place of push_front
PushLettersBack(q, letters) ==
    q \o [k \in 1..Len(letters) |-> <<Dash, letters[k]>>]

\* the same loop without .rev()
RECURSIVE PushLettersFwd(_, _, _)
PushLettersFwd(q, letters, n) ==
    IF n > Len(letters) THEN q
    ELSE PushLettersFwd(<<(<<Dash, letters[n]>>)>> \o q, letters, n + 1)

PushLettersNoRev(q, letters) == PushLettersFwd(q, letters, 1)

PushLettersRev(q, letters) == PushLetters(q, letters, Len(letters))

None == [some |-> FALSE, arg |-> <<>>, it |-> <<>>]

\* the same with front() in place of the first pop_front(): a token that is
\* no cluster is returned and stays in the deque
get_next_arg_front(q) ==
    IF q = <<>> THEN None
    ELSE LET arg == Head(q)
             q0  == Tail(q)
         IN IF Len(arg) > 2 /\ arg[1] = Dash /\ is_alpha(arg[2])
            THEN LET s         == SubSeq(arg, 2, Len(arg))
                     split_idx == SplitIdx(s)
                     letters   == SubSeq(s, 1, split_idx)
                     rest      == SubSeq(s, split_idx + 1, Len(s))
                     q1        == IF Len(rest) # 0 THEN <<rest>> \o q0 ELSE q0
                     q2        == PushLettersRev(q1, letters)
                 IN IF q2 = <<>> THEN None
                    ELSE [some |-> TRUE, arg |-> Head(q2), it |-> Tail(q2)]
            ELSE [some |-> TRUE, arg |-> arg, it |-> q]

\* Option<OsString> and the deque it leaves
get_next_arg(q) ==
    IF q = <<>> THEN None
    ELSE LET arg == Head(q)
             q0  == Tail(q)
         IN IF Len(arg) > 2 /\ arg[1] = Dash /\ is_alpha(arg[2])
            THEN LET s         == SubSeq(arg, 2, Len(arg))
                     split_idx == SplitIdx(s)
                     letters   == SubSeq(s, 1, split_idx)
                     rest      == SubSeq(s, split_idx + 1, Len(s))
                     q1        == IF Len(rest) # 0 THEN <<rest>> \o q0 ELSE q0
                     q2        == PushLettersRev(q1, letters)
                 IN IF q2 = <<>> THEN None
                    ELSE [some |-> TRUE, arg |-> Head(q2), it |-> Tail(q2)]
            ELSE [some |-> TRUE, arg |-> arg, it |-> q0]

----------------------------------------------------------------------------
(* Args::parse *)

InteractiveShell == [mode |-> "InteractiveShell", cmd |-> <<>>, args |-> <<>>]
Shell(c)         == [mode |-> "Shell", cmd |-> c, args |-> <<>>]
Exec(c, a)       == [mode |-> "Exec", cmd |-> c, args |-> a]

\* let mut res = Args { ... }
InitRes ==
    [packages    |-> FALSE,
     pure        |-> FALSE,
     interpreter |-> Bash,
     run         |-> InteractiveShell,
     rest        |-> <<>>,
     other_kw    |-> <<>>]

NoErr == [kind |-> "none", arg |-> <<>>]

\* the same message naming the canonical spelling of the flag
RequiresMoreCanonical(arg) ==
    [kind |-> "requires more arguments",
     arg  |-> IF arg = FlagAttr THEN FlagA
              ELSE IF arg = Flagj THEN FlagMaxJobs
              ELSE arg]

\* format!("flag {:?} requires more arguments", arg)
RequiresMore(arg) == [kind |-> "requires more arguments", arg |-> arg]

\* format!("unexpected arg {:?}", arg)
UnexpectedArg(arg) == [kind |-> "unexpected arg", arg |-> arg]

\* the closure taking its value with get_next_arg, as the loop takes its tokens
next_expanding(q) ==
    IF ~get_next_arg(q).some THEN [ok |-> FALSE, val |-> <<>>, it |-> q]
    ELSE [ok |-> TRUE, val |-> get_next_arg(q).arg, it |-> get_next_arg(q).it]

\* the closure with front() in place of pop_front()
next_front(q) ==
    IF q = <<>> THEN [ok |-> FALSE, val |-> <<>>, it |-> q]
    ELSE [ok |-> TRUE, val |-> Head(q), it |-> q]

\* the closure `next`: it.pop_front().ok_or_else(...)
next(q) ==
    IF q = <<>> THEN [ok |-> FALSE, val |-> <<>>, it |-> q]
    ELSE [ok |-> TRUE, val |-> Head(q), it |-> Tail(q)]

\* vec![.., next()?]: one call of next
Next1(q) ==
    LET a == next(q)
    IN [ok |-> a.ok, vals |-> IF a.ok THEN <<a.val>> ELSE <<>>, it |-> a.it]

\* vec![.., next()?, next()?]: two calls of next, left to right
Next2(q) ==
    LET a == next(q)
    IN IF ~a.ok THEN [ok |-> FALSE, vals |-> <<>>, it |-> a.it]
       ELSE LET b == next(a.it)
            IN [ok |-> b.ok,
                vals |-> IF b.ok THEN <<a.val, b.val>> ELSE <<>>,
                it |-> b.it]

\* arg == "-i" && in_shebang
IsInterpreterAnyMode(arg, sh) == arg = Flagi

IsInterpreter(arg, sh) == arg = Flagi /\ sh

\* (arg == "--run" || arg == "--command") && !in_shebang
IsRunAnyMode(arg, sh) == arg = FlagRun \/ arg = FlagCommand

IsRun(arg, sh) == (arg = FlagRun \/ arg = FlagCommand) /\ ~sh

\* arg == "--exec" && !in_shebang
IsExec(arg, sh) == arg = FlagExec /\ ~sh

\* arg.as_bytes().first() == Some(&b'-')
FirstIsDashOfLonger(arg) == Len(arg) > 1 /\ arg[1] = Dash

FirstIsDash(arg) == Len(arg) > 0 /\ arg[1] = Dash

\* the if / else-if chain of the loop body, in its order
Branch(arg, sh) ==
    IF arg = FlagAttr \/ arg = FlagA THEN "attr"
    ELSE IF arg = FlagI THEN "I"
    ELSE IF arg = FlagArg THEN "arg"
    ELSE IF arg = FlagArgstr THEN "argstr"
    ELSE IF arg = FlagOption THEN "option"
    ELSE IF arg = Flagj \/ arg = FlagMaxJobs THEN "max-jobs"
    ELSE IF arg = FlagPure THEN "pure"
    ELSE IF arg = FlagImpure THEN "impure"
    ELSE IF arg = FlagPackages \/ arg = Flagp THEN "packages"
    ELSE IF IsInterpreter(arg, sh) THEN "interpreter"
    ELSE IF IsRun(arg, sh) THEN "run"
    ELSE IF IsExec(arg, sh) THEN "exec"
    ELSE IF FirstIsDash(arg) THEN "unexpected"
    ELSE "rest"

\* one iteration that took `branch`: the token and the deque get_next_arg left
Iter(branch, g) ==
    /\ pc = "loop"
    /\ g = get_next_arg(it)
    /\ g.some
    /\ Branch(g.arg, in_shebang) = branch
    /\ hist' = Append(hist, [arg |-> g.arg, q |-> g.it])
    /\ UNCHANGED <<args, in_shebang, out>>

\* the same with the flag pushed before its values are asked for
ExtendOtherKwEager(g, name, n) ==
    IF n.ok
    THEN /\ res' = [res EXCEPT !.other_kw = @ \o <<name>> \o n.vals]
         /\ it' = n.it
         /\ UNCHANGED <<pc, err>>
    ELSE /\ pc' = "err"
         /\ err' = RequiresMore(g.arg)
         /\ it' = n.it
         /\ res' = [res EXCEPT !.other_kw = @ \o <<name>>]

\* the same with the flag pushed after its values
ExtendOtherKwNameLast(g, name, n) ==
    IF n.ok
    THEN /\ res' = [res EXCEPT !.other_kw = @ \o n.vals \o <<name>>]
         /\ it' = n.it
         /\ UNCHANGED <<pc, err>>
    ELSE /\ pc' = "err"
         /\ err' = RequiresMore(g.arg)
         /\ it' = n.it
         /\ UNCHANGED res

\* res.other_kw.extend(vec![name, next()?, ..]) or return Err
ExtendOtherKw(g, name, n) ==
    IF n.ok
    THEN /\ res' = [res EXCEPT !.other_kw = @ \o <<name>> \o n.vals]
         /\ it' = n.it
         /\ UNCHANGED <<pc, err>>
    ELSE /\ pc' = "err"
         /\ err' = RequiresMore(g.arg)
         /\ it' = n.it
         /\ UNCHANGED res

Attr ==
    \E g \in {get_next_arg(it)} :
        /\ Iter("attr", g)
        /\ ExtendOtherKw(g, FlagA, Next1(g.it))

IncludePath ==
    \E g \in {get_next_arg(it)} :
        /\ Iter("I", g)
        /\ ExtendOtherKw(g, FlagI, Next1(g.it))

Arg ==
    \E g \in {get_next_arg(it)} :
        /\ Iter("arg", g)
        /\ ExtendOtherKw(g, FlagArg, Next2(g.it))

Argstr ==
    \E g \in {get_next_arg(it)} :
        /\ Iter("argstr", g)
        /\ ExtendOtherKw(g, FlagArgstr, Next2(g.it))

Option ==
    \E g \in {get_next_arg(it)} :
        /\ Iter("option", g)
        /\ ExtendOtherKw(g, FlagOption, Next2(g.it))

\* -j / --max-jobs pushed as spelled
MaxJobsAsSpelled ==
    \E g \in {get_next_arg(it)} :
        /\ Iter("max-jobs", g)
        /\ ExtendOtherKw(g, g.arg, Next1(g.it))

MaxJobs ==
    \E g \in {get_next_arg(it)} :
        /\ Iter("max-jobs", g)
        /\ ExtendOtherKw(g, FlagMaxJobs, Next1(g.it))

Pure ==
    \E g \in {get_next_arg(it)} :
        /\ Iter("pure", g)
        /\ res' = [res EXCEPT !.pure = TRUE]
        /\ it' = g.it
        /\ UNCHANGED <<pc, err>>

\* --impure that leaves res.pure as it is
ImpureKeeps ==
    \E g \in {get_next_arg(it)} :
        /\ Iter("impure", g)
        /\ res' = res
        /\ it' = g.it
        /\ UNCHANGED <<pc, err>>

Impure ==
    \E g \in {get_next_arg(it)} :
        /\ Iter("impure", g)
        /\ res' = [res EXCEPT !.pure = FALSE]
        /\ it' = g.it
        /\ UNCHANGED <<pc, err>>

Packages ==
    \E g \in {get_next_arg(it)} :
        /\ Iter("packages", g)
        /\ res' = [res EXCEPT !.packages = TRUE]
        /\ it' = g.it
        /\ UNCHANGED <<pc, err>>

\* res.interpreter = next()?
Interpreter ==
    \E g \in {get_next_arg(it)} :
        /\ Iter("interpreter", g)
        /\ LET n == next(g.it)
           IN /\ it' = n.it
              /\ IF n.ok
                 THEN /\ res' = [res EXCEPT !.interpreter = n.val]
                      /\ UNCHANGED <<pc, err>>
                 ELSE /\ pc' = "err"
                      /\ err' = RequiresMore(g.arg)
                      /\ UNCHANGED res

\* --run / --command that keeps a run mode already set
RunShellFirstWins ==
    \E g \in {get_next_arg(it)} :
        /\ Iter("run", g)
        /\ LET n == next(g.it)
           IN /\ it' = n.it
              /\ IF n.ok
                 THEN /\ res' = IF res.run = InteractiveShell
                                THEN [res EXCEPT !.run = Shell(n.val)]
                                ELSE res
                      /\ UNCHANGED <<pc, err>>
                 ELSE /\ pc' = "err"
                      /\ err' = RequiresMore(g.arg)
                      /\ UNCHANGED res

\* res.run = RunMode::Shell(next()?)
RunShell ==
    \E g \in {get_next_arg(it)} :
        /\ Iter("run", g)
        /\ LET n == next(g.it)
           IN /\ it' = n.it
              /\ IF n.ok
                 THEN /\ res' = [res EXCEPT !.run = Shell(n.val)]
                      /\ UNCHANGED <<pc, err>>
                 ELSE /\ pc' = "err"
                      /\ err' = RequiresMore(g.arg)
                      /\ UNCHANGED res

\* --exec without the break: the loop goes on over the exec arguments
RunExecNoBreak ==
    \E g \in {get_next_arg(it)} :
        /\ Iter("exec", g)
        /\ LET n == next(g.it)
           IN IF n.ok
              THEN /\ res' = [res EXCEPT !.run = Exec(n.val, n.it)]
                   /\ it' = n.it
                   /\ UNCHANGED <<pc, err>>
              ELSE /\ pc' = "err"
                   /\ err' = RequiresMore(g.arg)
                   /\ it' = n.it
                   /\ UNCHANGED res

\* res.run = RunMode::Exec(next()?, it.into()); break;  then Ok(res)
RunExec ==
    \E g \in {get_next_arg(it)} :
        /\ Iter("exec", g)
        /\ LET n == next(g.it)
           IN IF n.ok
              THEN /\ res' = [res EXCEPT !.run = Exec(n.val, n.it)]
                   /\ it' = <<>>
                   /\ pc' = "ok"
                   /\ UNCHANGED err
              ELSE /\ pc' = "err"
                   /\ err' = RequiresMore(g.arg)
                   /\ it' = n.it
                   /\ UNCHANGED res

\* return Err(format!("unexpected arg {:?}", arg))
Unexpected ==
    \E g \in {get_next_arg(it)} :
        /\ Iter("unexpected", g)
        /\ pc' = "err"
        /\ err' = UnexpectedArg(g.arg)
        /\ it' = g.it
        /\ UNCHANGED res

\* res.rest.push(arg.clone())
Rest ==
    \E g \in {get_next_arg(it)} :
        /\ Iter("rest", g)
        /\ res' = [res EXCEPT !.rest = Append(@, g.arg)]
        /\ it' = g.it
        /\ UNCHANGED <<pc, err>>

\* get_next_arg returned None: the loop ends, Ok(res)
Finish ==
    /\ pc = "loop"
    /\ ~get_next_arg(it).some
    /\ pc' = "ok"
    /\ UNCHANGED <<args, in_shebang, it, res, err, hist, out>>

----------------------------------------------------------------------------
(* The inputs of parse *)

MaxArgs == 3

\* the tokens of the inputs of up to MaxArgs tokens
Pool ==
    { FlagAttr, FlagA, FlagI, FlagArg, FlagArgstr, FlagOption, Flagj,
      FlagMaxJobs, FlagPure, FlagImpure, Flagp, Flagi,
      FlagRun, FlagCommand, FlagExec,
      Tok(<<"-">>),
      Tok(<<"-","-">>),
      Tok(<<"-","p","j","1","6">>),
      Tok(<<"-","j","p">>),
      Tok(<<"z","s","h">>),
      Tok(<<"p","k","g",".","n","i","x">>),
      Tok(<<>>) }

\* the tokens of the inputs of MaxArgs + 1 tokens
CorePool ==
    { FlagA, FlagPackages, FlagPure, FlagRun, FlagExec,
      Tok(<<"-","p","4">>),
      Tok(<<"z","s","h">>),
      Tok(<<"p","k","g",".","n","i","x">>) }

SeqsUpTo(S, n) == UNION { [1..k -> S] : k \in 0..n }

Inputs == SeqsUpTo(Pool, MaxArgs) \cup [1..(MaxArgs + 1) -> CorePool]

Init ==
    /\ args \in Inputs
    /\ in_shebang \in BOOLEAN
    /\ it = args
    /\ res = InitRes
    /\ pc = "loop"
    /\ err = NoErr
    /\ hist = <<>>
    /\ out = <<>>

Next ==
    \/ Attr
    \/ IncludePath
    \/ Arg
    \/ Argstr
    \/ Option
    \/ MaxJobs
    \/ Pure
    \/ Impure
    \/ Packages
    \/ Interpreter
    \/ RunShell
    \/ RunExec
    \/ Unexpected
    \/ Rest
    \/ Finish

Spec == Init /\ [][Next]_vars

\* the inputs of the runs checked for termination: one token shorter
FairInputs == SeqsUpTo(Pool, MaxArgs - 1) \cup [1..MaxArgs -> CorePool]

FairInit ==
    /\ args \in FairInputs
    /\ in_shebang \in BOOLEAN
    /\ it = args
    /\ res = InitRes
    /\ pc = "loop"
    /\ err = NoErr
    /\ hist = <<>>
    /\ out = <<>>

\* parse is sequential code: while it has not returned, its next iteration runs
FairSpec == FairInit /\ [][Next]_vars /\ WF_vars(Next)

----------------------------------------------------------------------------
(* The test helper expand: std::iter::from_fn(|| get_next_arg(&mut it)) *)

\* s.to_string_lossy(): ASCII bytes are kept, the others become U+FFFD
to_string_lossy(t) == [i \in 1..Len(t) |-> IF t[i] < 128 THEN t[i] ELSE 65533]

\* from_fn got Some(s): .map(|s| s.to_string_lossy().into())
ExpandSome ==
    /\ pc = "expand"
    /\ get_next_arg(it).some
    /\ out' = Append(out, to_string_lossy(get_next_arg(it).arg))
    /\ it' = get_next_arg(it).it
    /\ UNCHANGED <<args, in_shebang, res, pc, err, hist>>

\* from_fn got None: .collect() returns
ExpandNone ==
    /\ pc = "expand"
    /\ ~get_next_arg(it).some
    /\ pc' = "collected"
    /\ UNCHANGED <<args, in_shebang, it, res, err, hist, out>>

MaxTokLen == 5

\* the bytes of the tokens given to expand: - 1 6 Z j p
ExpandBytes == {45, 49, 54, 90, 106, 112}

InitExpand ==
    /\ \E t \in SeqsUpTo(ExpandBytes, MaxTokLen) : args = <<t>>
    /\ in_shebang = FALSE
    /\ it = args
    /\ res = InitRes
    /\ pc = "expand"
    /\ err = NoErr
    /\ hist = <<>>
    /\ out = <<>>

NextExpand ==
    \/ ExpandSome
    \/ ExpandNone

SpecExpand == InitExpand /\ [][NextExpand]_vars

\* the tokens of the queues of several tokens drained by the same loop
QueuePool ==
    { Tok(<<"-","p","j","1","6">>),
      Tok(<<"-","p","i">>),
      Tok(<<"-","j","4">>),
      Tok(<<"-","Z","-","Z","1">>),
      Tok(<<"-","-","a","r","g","s","t","r">>),
      Tok(<<"-","-">>),
      Tok(<<"-","i">>),
      Tok(<<"p","k","g",".","n","i","x">>),
      Tok(<<"1","6">>),
      Tok(<<>>) }

InitExpandQueue ==
    /\ args \in SeqsUpTo(QueuePool, MaxArgs)
    /\ in_shebang = FALSE
    /\ it = args
    /\ res = InitRes
    /\ pc = "expand"
    /\ err = NoErr
    /\ hist = <<>>
    /\ out = <<>>

SpecExpandQueue == InitExpandQueue /\ [][NextExpand]_vars

----------------------------------------------------------------------------
(* Vocabulary of the properties, stated from the flag table *)

Range(s) == { s[i] : i \in DOMAIN s }

Last(s) == s[Len(s)]

Drop(s, n) == SubSeq(s, n + 1, Len(s))

TwoValueFlags == {FlagArg, FlagArgstr, FlagOption}

OneValueFlags(sh) ==
    {FlagAttr, FlagA, FlagI, Flagj, FlagMaxJobs}
        \cup (IF sh THEN {Flagi} ELSE {FlagRun, FlagCommand, FlagExec})

NoValueFlags == {FlagPure, FlagImpure, FlagPackages, Flagp}

Recognized(sh) == TwoValueFlags \cup OneValueFlags(sh) \cup NoValueFlags

Needs(a, sh) ==
    IF a \in TwoValueFlags THEN 2
    ELSE IF a \in OneValueFlags(sh) THEN 1
    ELSE 0

BeginsWithDash(a) == Len(a) >= 1 /\ a[1] = 45

Letter(b) == b \in (65..90) \cup (97..122)

\* a token get_next_arg splits
IsCluster(a) == Len(a) > 2 /\ a[1] = 45 /\ Letter(a[2])

\* the iteration h met a dash token that is no flag of the current mode
Unrecognized(h) == BeginsWithDash(h.arg) /\ h.arg \notin Recognized(in_shebang)

\* the iteration h met a flag that needs more values than the queue held
Starved(h) ==
    /\ h.arg \in Recognized(in_shebang)
    /\ Needs(h.arg, in_shebang) > Len(h.q)

Failing(h) == Unrecognized(h) \/ Starved(h)

----------------------------------------------------------------------------
\* C1: outside shebang mode, when --exec is classified with at least one token
\* after it, the step returns Ok with run = Exec(next token, all remaining
\* tokens verbatim), changes no other field of the result, and nothing is
\* classified after it (no step leaves a returned parse).
C1_ExecIsTerminal ==
    [][ /\ (pc = "loop" /\ ~in_shebang /\ Len(it) >= 2 /\ it[1] = FlagExec)
            => /\ pc' = "ok"
               /\ res' = [res EXCEPT !.run =
                             [mode |-> "Exec", cmd |-> it[2],
                              args |-> SubSeq(it, 3, Len(it))]]
               /\ err' = err
        /\ (pc \in {"ok", "err"}) => UNCHANGED vars ]_vars

C1_Witness ==
    /\ pc = "ok"
    /\ res.run.mode = "Exec"
    /\ FlagPure \in Range(res.run.args)
    /\ res.pure = FALSE
    /\ res.rest = <<>>

\* C2: on Ok, pure is true iff the last classified --pure / --impure token is
\* --pure (false when none was classified).
PurityAt == { i \in DOMAIN hist : hist[i].arg \in {FlagPure, FlagImpure} }

C2_PureLastWins ==
    pc = "ok" =>
        res.pure = (\E i \in PurityAt :
                        /\ hist[i].arg = FlagPure
                        /\ \A j \in PurityAt : j <= i)

C2_Witness ==
    /\ pc = "ok"
    /\ res.pure = FALSE
    /\ \E i, j \in PurityAt :
           i < j /\ hist[i].arg = FlagPure /\ hist[j].arg = FlagImpure

\* C3: a mode-restricted token classified in the wrong mode is the last token
\* classified and parse returns the unexpected-arg error for it; in shebang
\* mode -i followed by a token v sets interpreter = v.
WrongMode(a) ==
    \/ a = Flagi /\ ~in_shebang
    \/ a \in {FlagRun, FlagCommand, FlagExec} /\ in_shebang

C3_ModeRestricted ==
    /\ \A i \in DOMAIN hist :
           WrongMode(hist[i].arg) =>
               /\ i = Len(hist)
               /\ pc = "err"
               /\ err = [kind |-> "unexpected arg", arg |-> hist[i].arg]
    /\ (in_shebang /\ hist # <<>> /\ Last(hist).arg = Flagi /\ Last(hist).q # <<>>)
           => /\ pc # "err"
              /\ res.interpreter = Last(hist).q[1]

C3_Witness ==
    /\ pc = "err"
    /\ ~in_shebang
    /\ Len(args) >= 2
    /\ args[1] = Flagi
    /\ err.arg = Flagi

\* C4: in every state, in shebang mode run is InteractiveShell, and outside
\* shebang mode interpreter is "bash".
C4_ModeDefaults ==
    /\ in_shebang =>
           res.run = [mode |-> "InteractiveShell", cmd |-> <<>>, args |-> <<>>]
    /\ ~in_shebang => res.interpreter = Bash

C4_Witness ==
    /\ pc = "ok"
    /\ in_shebang
    /\ res.interpreter # Bash
    /\ res.run.mode = "InteractiveShell"

\* C5: parse has returned an error iff the last classified token is a dash
\* token that is no flag of the mode or a flag with too few values left; no
\* earlier classified token is one, and the error names that token.
C5_ErrorIffFirstFailure ==
    /\ pc = "err" <=> (hist # <<>> /\ Failing(Last(hist)))
    /\ \A i \in 1..(Len(hist) - 1) : ~Failing(hist[i])
    /\ pc = "err" =>
           err = [kind |-> IF Unrecognized(Last(hist))
                           THEN "unexpected arg"
                           ELSE "requires more arguments",
                  arg  |-> Last(hist).arg]
    /\ pc # "err" => err.kind = "none"

C5_Witness ==
    /\ pc = "err"
    /\ err.kind = "unexpected arg"
    /\ Len(err.arg) <= 2
    /\ Len(hist) >= 2
    /\ it # <<>>
    /\ BeginsWithDash(it[1])

\* C6: a recognized flag classified with fewer tokens left than it needs makes
\* parse fail with the requires-more-arguments error naming the token as it
\* was classified.
C6_RequiresMore ==
    (hist # <<>> /\ Starved(Last(hist))) =>
        /\ pc = "err"
        /\ err.kind = "requires more arguments"
        /\ err.arg = Last(hist).arg

C6_Witness ==
    /\ pc = "err"
    /\ err = [kind |-> "requires more arguments", arg |-> FlagAttr]
    /\ hist # <<>>
    /\ Last(hist).q = <<>>

\* C7: on Ok, other_kw is the concatenation, in classification order, of one
\* group per pass-through flag: the canonical flag, then the tokens that
\* followed the flag in the queue.
GroupOf(h) ==
    IF h.arg \in {FlagAttr, FlagA} THEN <<FlagA>> \o SubSeq(h.q, 1, 1)
    ELSE IF h.arg = FlagI THEN <<FlagI>> \o SubSeq(h.q, 1, 1)
    ELSE IF h.arg \in {Flagj, FlagMaxJobs} THEN <<FlagMaxJobs>> \o SubSeq(h.q, 1, 1)
    ELSE IF h.arg \in TwoValueFlags THEN <<h.arg>> \o SubSeq(h.q, 1, 2)
    ELSE <<>>

RECURSIVE Groups(_)
Groups(n) == IF n = 0 THEN <<>> ELSE Groups(n - 1) \o GroupOf(hist[n])

C7_OtherKwGroups ==
    pc = "ok" => res.other_kw = Groups(Len(hist))

C7_Witness ==
    /\ pc = "ok"
    /\ Len(res.other_kw) >= 4
    /\ \E i \in DOMAIN hist : hist[i].arg = Flagj
    /\ FlagMaxJobs \in Range(res.other_kw)

\* C8 as stated: on Ok, other_kw is a subsequence of the raw input, element
\* for element equal.
RECURSIVE Embeds(_, _, _, _, _)
Embeds(Match(_, _), s, t, i, j) ==
    IF i > Len(s) THEN TRUE
    ELSE IF j > Len(t) THEN FALSE
    ELSE IF Match(s[i], t[j]) THEN Embeds(Match, s, t, i + 1, j + 1)
    ELSE Embeds(Match, s, t, i, j + 1)

SameToken(o, a) == o = a

C8_Original_OtherKwSubseqOfInput ==
    pc = "ok" => Embeds(SameToken, res.other_kw, args, 1, 1)

\* C8 amended: on Ok, for an input with no cluster token, other_kw embeds in
\* order into the raw input, each element equal to the input token it comes
\* from except that -A may come from --attr and --max-jobs from -j.
SameOrCanonical(o, a) ==
    \/ o = a
    \/ o = FlagA /\ a = FlagAttr
    \/ o = FlagMaxJobs /\ a = Flagj

C8_OtherKwEmbedsCanonical ==
    (pc = "ok" /\ \A k \in DOMAIN args : ~IsCluster(args[k]))
        => Embeds(SameOrCanonical, res.other_kw, args, 1, 1)

C8_Witness ==
    /\ pc = "ok"
    /\ \A k \in DOMAIN args : ~IsCluster(args[k])
    /\ Len(res.other_kw) = 2
    /\ res.other_kw[1] = FlagA
    /\ args[1] = FlagAttr
    /\ Len(res.rest) = 1

\* C9: rest holds, in order, exactly the classified tokens that are no flag of
\* the mode and do not begin with '-'; the tokens a flag consumed as values
\* are removed from the queue before the next token is classified, so none of
\* them is classified (and so none reaches rest).
HistArgs == [i \in DOMAIN hist |-> hist[i].arg]

Positional(a) == a \notin Recognized(in_shebang) /\ ~BeginsWithDash(a)

AfterValues(h) == Drop(h.q, Needs(h.arg, in_shebang))

C9_TokensUsedOnce ==
    /\ res.rest = SelectSeq(HistArgs, Positional)
    /\ \A i \in 1..(Len(hist) - 1) :
           get_next_arg(AfterValues(hist[i])) =
               [some |-> TRUE, arg |-> hist[i + 1].arg, it |-> hist[i + 1].q]
    /\ (pc = "loop" /\ hist # <<>>) => it = AfterValues(Last(hist))

C9_Witness ==
    /\ pc = "ok"
    /\ Len(args) = 3
    /\ args[1] = FlagA
    /\ res.other_kw = <<FlagA, args[2]>>
    /\ res.rest = <<args[3]>>
    /\ args[2] = Tok(<<"z","s","h">>)

\* C10 as stated: for a token '-' + letters + suffix (empty or beginning with
\* a non-letter), expand yields one '-'+letter token per letter, in order,
\* then the suffix as one token if it is not empty.
LetterRun(t) ==
    CHOOSE n \in 0..(Len(t) - 1) :
        /\ \A k \in 2..(n + 1) : Letter(t[k])
        /\ (n + 2 <= Len(t)) => ~Letter(t[n + 2])

HasClusterShape(t) == Len(t) >= 2 /\ t[1] = 45 /\ Letter(t[2])

LetterTokens(t) == [k \in 1..LetterRun(t) |-> <<45, t[k + 1]>>]

Suffix(t) == SubSeq(t, LetterRun(t) + 2, Len(t))

C10_Original_SuffixIsOneToken ==
    (pc = "collected" /\ HasClusterShape(args[1])) =>
        out = LetterTokens(args[1])
                \o (IF Suffix(args[1]) # <<>> THEN <<Suffix(args[1])>> ELSE <<>>)

\* C10 amended: ... then, if the suffix is not empty, the suffix as one token
\* unless the suffix is itself a cluster (longer than 2 bytes, '-' then a
\* letter), in which case the suffix is expanded in turn by the same rule.
RECURSIVE Expansion(_)
Expansion(t) ==
    IF HasClusterShape(t)
    THEN LetterTokens(t)
            \o (IF Suffix(t) = <<>> THEN <<>>
                ELSE IF IsCluster(Suffix(t)) THEN Expansion(Suffix(t))
                ELSE <<Suffix(t)>>)
    ELSE <<t>>

C10_ExpandCluster ==
    (pc = "collected" /\ HasClusterShape(args[1])) => out = Expansion(args[1])

C10_Witness ==
    /\ pc = "collected"
    /\ args = << <<45, 112, 106, 49, 54>> >>
    /\ out = << <<45, 112>>, <<45, 106>>, <<49, 54>> >>

\* C11: get_next_arg returns the front token unchanged and pushes nothing
\* back when the token has at most 2 bytes, or does not begin with '-', or
\* its second byte is no letter.
NotSplit(t) == Len(t) <= 2 \/ t[1] # 45 \/ ~Letter(t[2])

C11_ShortOrLongOptionUnchanged ==
    /\ (pc = "collected" /\ NotSplit(args[1])) => out = args
    /\ (pc = "expand" /\ out # <<>> /\ NotSplit(args[1])) => it = <<>>

C11_Witness ==
    /\ pc = "collected"
    /\ Len(args[1]) > 2
    /\ args[1][1] = 45
    /\ args[1][2] = 45
    /\ Letter(args[1][3])
    /\ out = args

\* C12: a token made of '-' and two or more letters, nothing else, expands to
\* one '-'+letter token per letter, the last letter included, and no suffix
\* token.
OnlyLetters(t) ==
    /\ Len(t) >= 3
    /\ t[1] = 45
    /\ \A k \in 2..Len(t) : Letter(t[k])

C12_LettersOnlyCluster ==
    (pc = "collected" /\ OnlyLetters(args[1])) =>
        /\ Len(out) = Len(args[1]) - 1
        /\ \A k \in 1..Len(out) : out[k] = <<45, args[1][k + 1]>>

C12_Witness ==
    /\ pc = "collected"
    /\ args = << <<45, 112, 90, 106>> >>
    /\ out = << <<45, 112>>, <<45, 90>>, <<45, 106>> >>

\* C13 as stated: for a cluster with no non-letter byte after the dash, the
\* last byte of the token is split off as the suffix and comes out as a token
\* of its own (not as a '-'+letter flag).
C13_Original_LastByteIsSuffix ==
    (pc = "collected" /\ OnlyLetters(args[1])) =>
        /\ out # <<>>
        /\ out[Len(out)] = <<args[1][Len(args[1])]>>

\* C13 amended: for a cluster with no non-letter byte after the dash, the
\* split point is the end of the token: the suffix is empty, nothing is
\* re-queued as a suffix, and after the first call the queue holds one
\* '-'+letter flag for every remaining byte, the last byte included.
C13_SplitAtEndOfToken ==
    (pc = "expand" /\ Len(out) = 1 /\ OnlyLetters(args[1])) =>
        /\ Len(it) = Len(args[1]) - 2
        /\ \A k \in 1..Len(it) : it[k] = <<45, args[1][k + 2]>>

C13_Witness ==
    /\ pc = "expand"
    /\ Len(out) = 1
    /\ args = << <<45, 112, 106>> >>
    /\ it = << <<45, 106>> >>

\* C14 as stated: run is assigned at most once in a parse, and once run is
\* Exec no field of the result changes.
C14_Original_RunAssignedOnce ==
    [][ /\ (res'.run # res.run) =>
               res.run = [mode |-> "InteractiveShell", cmd |-> <<>>, args |-> <<>>]
        /\ (res.run.mode = "Exec") => res' = res ]_vars

\* C14 amended: outside shebang mode every --run, --command or --exec
\* classified with a token behind it assigns run, so run may be assigned
\* several times and holds the last assignment; an assignment of Exec is the
\* last classification of the parse, which has then returned Ok.
RunSetAt ==
    { i \in DOMAIN hist :
        /\ ~in_shebang
        /\ hist[i].arg \in {FlagRun, FlagCommand, FlagExec}
        /\ hist[i].q # <<>> }

RunValueOf(h) ==
    IF h.arg = FlagExec
    THEN [mode |-> "Exec", cmd |-> h.q[1], args |-> SubSeq(h.q, 2, Len(h.q))]
    ELSE [mode |-> "Shell", cmd |-> h.q[1], args |-> <<>>]

C14_RunLastWins ==
    /\ RunSetAt = {} =>
           res.run = [mode |-> "InteractiveShell", cmd |-> <<>>, args |-> <<>>]
    /\ \A i \in RunSetAt :
           (\A j \in RunSetAt : j <= i) => res.run = RunValueOf(hist[i])
    /\ \A i \in RunSetAt :
           hist[i].arg = FlagExec => (i = Len(hist) /\ pc = "ok" /\ it = <<>>)

C14_Witness ==
    /\ pc = "ok"
    /\ res.run.mode = "Exec"
    /\ \E i, j \in RunSetAt :
           /\ i < j
           /\ hist[i].arg = FlagRun
           /\ RunValueOf(hist[i]) # RunValueOf(hist[j])

\* C15: a step that fails for lack of values leaves the result under
\* construction exactly as it was before the failing flag was classified.
C15_NoPartialMutation ==
    [][ (pc = "loop" /\ pc' = "err" /\ err'.kind = "requires more arguments")
            => res' = res ]_vars

C15_Witness ==
    /\ pc = "err"
    /\ err.kind = "requires more arguments"
    /\ err.arg \in TwoValueFlags
    /\ Len(Last(hist).q) = 1
    /\ Len(res.other_kw) = 2

\* C16: parse terminates: every iteration of the loop either returns or
\* leaves a queue of strictly smaller weight (a token of more than 2 bytes
\* weighs its length, any other token 1; a cluster is replaced by two-byte
\* tokens and a shorter suffix), and every parse eventually returns.
Weight(t) == IF Len(t) <= 2 THEN 1 ELSE Len(t)

RECURSIVE QueueWeight(_)
QueueWeight(q) == IF q = <<>> THEN 0 ELSE Weight(Head(q)) + QueueWeight(Tail(q))

C16_Terminates ==
    /\ [][ pc = "loop" =>
              (pc' # "loop" \/ QueueWeight(it') < QueueWeight(it)) ]_vars
    /\ <>(pc \in {"ok", "err"})

C16_Witness ==
    /\ pc = "ok"
    /\ Len(hist) > Len(args)
    /\ \E k \in DOMAIN args : IsCluster(args[k])
    /\ Len(res.rest) >= 1

\* C17: when a flag is classified with its values in the queue, the values it
\* stores are the tokens at the front of the queue, as they are (a cluster is
\* not expanded, a flag is not classified): they leave the queue and change
\* nothing but the field of that flag.
PassThroughFlags ==
    {FlagAttr, FlagA, FlagI, Flagj, FlagMaxJobs} \cup TwoValueFlags

C17_ValuesTakenVerbatim ==
    [][ LET g == get_next_arg(it)
            n == Needs(g.arg, in_shebang)
            v == SubSeq(g.it, 1, n)
        IN (pc = "loop" /\ g.some /\ n >= 1 /\ Len(g.it) >= n) =>
               /\ res'.packages = res.packages
               /\ res'.pure = res.pure
               /\ res'.rest = res.rest
               /\ g.arg \in PassThroughFlags =>
                      /\ Len(res'.other_kw) = Len(res.other_kw) + 1 + n
                      /\ SubSeq(res'.other_kw, Len(res.other_kw) + 2,
                                Len(res'.other_kw)) = v
                      /\ res'.interpreter = res.interpreter
                      /\ res'.run = res.run
                      /\ it' = Drop(g.it, n)
               /\ g.arg = Flagi =>
                      /\ res'.interpreter = v[1]
                      /\ res'.other_kw = res.other_kw
                      /\ it' = Drop(g.it, n)
               /\ g.arg \in {FlagRun, FlagCommand} =>
                      /\ res'.run = [mode |-> "Shell", cmd |-> v[1], args |-> <<>>]
                      /\ res'.other_kw = res.other_kw
                      /\ it' = Drop(g.it, n)
               /\ g.arg = FlagExec =>
                      /\ res'.run.cmd = v[1]
                      /\ res'.run.args = Drop(g.it, n)
                      /\ res'.other_kw = res.other_kw ]_vars

C17_Witness ==
    /\ pc = "ok"
    /\ args = << <<45, 106, 112>> >>
    /\ res.other_kw = <<FlagMaxJobs, Flagp>>
    /\ res.packages = FALSE

\* C18: expanding the cluster at the front of the queue touches only that
\* token: at every point of the drain, the tokens yielded so far followed by
\* the expansions of the tokens still queued are the expansions of the input
\* tokens, one after the other in input order; so the drained stream is that
\* concatenation.
RECURSIVE ExpandAll(_)
ExpandAll(q) ==
    IF q = <<>> THEN <<>> ELSE Expansion(Head(q)) \o ExpandAll(Tail(q))

C18_ExpansionIsLocal ==
    /\ out \o ExpandAll(it) = ExpandAll(args)
    /\ pc = "collected" => it = <<>>

C18_Witness ==
    /\ pc = "collected"
    /\ Len(args) >= 2
    /\ IsCluster(args[1])
    /\ Suffix(args[1]) # <<>>
    /\ ~IsCluster(args[2])
    /\ Len(out) > Len(args)
    /\ out[Len(out)] = args[Len(args)]

\* C19: in every state of parse no element of rest begins with '-'; every
\* element of rest is a raw input token or the non-letter suffix left of an
\* input cluster; and a classified empty token is in rest.
RECURSIVE FinalSuffix(_)
FinalSuffix(t) == IF IsCluster(t) THEN FinalSuffix(Suffix(t)) ELSE t

C19_RestTokens ==
    /\ \A k \in DOMAIN res.rest :
           /\ ~BeginsWithDash(res.rest[k])
           /\ \/ res.rest[k] \in Range(args)
              \/ \E a \in Range(args) :
                     /\ IsCluster(a)
                     /\ res.rest[k] # <<>>
                     /\ ~Letter(res.rest[k][1])
                     /\ res.rest[k] = FinalSuffix(a)
    /\ \A i \in DOMAIN hist : hist[i].arg = <<>> => <<>> \in Range(res.rest)

C19_Witness ==
    /\ pc = "ok"
    /\ res.packages
    /\ <<52>> \in Range(res.rest)
    /\ <<52>> \notin Range(args)
    /\ Len(res.rest) >= 2

=============================================================================
